---- MODULE Spec2Model ----
(***************************************************************************)
(* Camera Metadata Extractor (generate_camera_info) of the MIT-Adobe FiveK *)
(* tools: walks a directory tree, hands every non-directory entry whose    *)
(* path ends in ".dng" to LibRaw and writes one CSV line per visited file. *)
(*                                                                         *)
(* Strings are sequences of one-character strings, so that substr,        *)
(* find_last_of and the comma/newline structure of the output are computed *)
(* character by character as the C++ code computes them.                   *)
(***************************************************************************)
EXTENDS Integers, Sequences, FiniteSets, TLC

----------------------------------------------------------------------------
(* Bounds of the model *)

\* largest number of directory entries under the root
MaxEntries == 3

\* largest number of consecutive invocations of the program
MaxRuns == 2

----------------------------------------------------------------------------
(* std::string *)

\* size_t arithmetic wraps; the 64-bit modulus is narrowed to 16 bits, far
\* above the length of every string of the model
SIZE_MODULUS == 65536

npos == SIZE_MODULUS - 1

size_sub(a, b) == (a - b + SIZE_MODULUS) % SIZE_MODULUS

size_add(a, b) == (a + b) % SIZE_MODULUS

Min(a, b) == IF a < b THEN a ELSE b

\* std::string::substr(pos, count) throws std::out_of_range iff pos > size()
substr_throws(s, pos) == pos > Len(s)

\* std::string::substr(pos, count): [pos, pos + min(count, size() - pos))
substr(s, pos, count) ==
  SubSeq(s, pos + 1, pos + Min(count, Len(s) - pos))

\* std::string::find_last_of(chars): last position holding one of chars
find_last_of(s, chars) ==
  LET hits == {i \in 1..Len(s) : s[i] \in chars}
  IN IF hits = {} THEN npos
     ELSE (CHOOSE i \in hits : \A j \in hits : j <= i) - 1

DotDng == <<".", "d", "n", "g">>

Comma == <<",">>

Newline == <<"\n">>

----------------------------------------------------------------------------
(* Helpers of generate_camera_info *)

\* the substr call of is_dng_file throws for a path shorter than 4
is_dng_file_throws(path) == substr_throws(path, size_sub(Len(path), 4))

is_dng_file(path) == substr(path, size_sub(Len(path), 4), npos) = DotDng

\* basename cutting one character more than the extension
basename_cuts_five(path) ==
  LET pos == find_last_of(path, {"/", "\\"})
      filename == substr(path, size_add(pos, 1), npos)
  IN substr(filename, 0, size_sub(Len(filename), 5))

\* basename looking for '/' only
basename_slash_only(path) ==
  LET pos == find_last_of(path, {"/"})
      filename == substr(path, size_add(pos, 1), npos)
  IN substr(filename, 0, size_sub(Len(filename), 4))

basename(path) ==
  LET pos == find_last_of(path, {"/", "\\"})
      filename == substr(path, size_add(pos, 1), npos)
  IN substr(filename, 0, size_sub(Len(filename), 4))

\* file << basename(entry.path()) << "," << camera_info << "\n"
row_text(path, info) == basename(path) \o Comma \o info \o Newline

----------------------------------------------------------------------------
(* LibRaw *)

LIBRAW_SUCCESS == 0

\* imgdata.idata of a LibRaw object holding no file
EmptyIdata ==
  [make |-> <<>>, normalized_make |-> <<>>,
   model |-> <<>>, normalized_model |-> <<>>]

\* LibRaw::recycle(): drops everything the object holds of the last file
recycle(r) == EmptyIdata

\* LibRaw::open_file(): identifies the file; on success idata holds its
\* identification block
open_file(r, e) ==
  [res |-> e.open_res,
   raw |-> IF e.open_res = LIBRAW_SUCCESS
           THEN [make |-> e.make, normalized_make |-> e.normalized_make,
                 model |-> e.model, normalized_model |-> e.normalized_model]
           ELSE r]

\* LibRaw::unpack(): decodes the image data, idata is left alone
unpack(r, e) == [res |-> e.unpack_res, raw |-> r]

\* camera_model without the check of unpack's result
camera_model_unpack_unchecked(r, e) ==
  LET r0 == recycle(r)
      o  == open_file(r0, e)
  IN IF o.res # LIBRAW_SUCCESS THEN [ret |-> <<>>, raw |-> o.raw]
     ELSE [ret |-> o.raw.make \o Comma \o o.raw.normalized_make \o Comma
                   \o o.raw.model \o Comma \o o.raw.normalized_model,
           raw |-> o.raw]

\* camera_model with the normalized make and the model exchanged
camera_model_columns_swapped(r, e) ==
  LET r0 == recycle(r)
      o  == open_file(r0, e)
      u  == unpack(o.raw, e)
  IN IF o.res # LIBRAW_SUCCESS THEN [ret |-> <<>>, raw |-> o.raw]
     ELSE IF u.res # LIBRAW_SUCCESS THEN [ret |-> <<>>, raw |-> u.raw]
     ELSE [ret |-> u.raw.make \o Comma \o u.raw.model \o Comma
                   \o u.raw.normalized_make \o Comma
                   \o u.raw.normalized_model,
           raw |-> u.raw]

\* camera_model without recycle() and without the checks of the results:
\* it returns whatever the LibRaw object holds after open_file
camera_model_keeps_last(r, e) ==
  LET o == open_file(r, e)
  IN [ret |-> o.raw.make \o Comma \o o.raw.normalized_make \o Comma
              \o o.raw.model \o Comma \o o.raw.normalized_model,
      raw |-> o.raw]

\* camera_model(raw, filename): the returned string and the LibRaw object
\* after the call
camera_model(r, e) ==
  LET r0 == recycle(r)
      o  == open_file(r0, e)
      u  == unpack(o.raw, e)
  IN IF o.res # LIBRAW_SUCCESS THEN [ret |-> <<>>, raw |-> o.raw]
     ELSE IF u.res # LIBRAW_SUCCESS THEN [ret |-> <<>>, raw |-> u.raw]
     ELSE [ret |-> u.raw.make \o Comma \o u.raw.normalized_make \o Comma
                   \o u.raw.model \o Comma \o u.raw.normalized_model,
           raw |-> u.raw]

----------------------------------------------------------------------------
(* The file system the program runs on *)

Entry(path, dir, ores, ures, mk, nmk, md, nmd) ==
  [path |-> path, is_directory |-> dir, open_res |-> ores, unpack_res |-> ures,
   make |-> mk, normalized_make |-> nmk, model |-> md, normalized_model |-> nmd]

NoId == <<>>

\* the entries a tree under the root "r" is drawn from; -100009 and -2 are
\* LIBRAW_IO_ERROR and LIBRAW_FILE_UNSUPPORTED
EntryPool ==
  { Entry(<<"r","/","a",".","d","n","g">>, FALSE, 0, 0,
          <<"L","e">>, <<"L">>, <<"M"," ">>, <<"M">>),
    Entry(<<"r","/","b",".","d","n","g">>, FALSE, -100009, 0,
          NoId, NoId, NoId, NoId),
    Entry(<<"r","/","u",".","d","n","g">>, FALSE, 0, -2,
          <<"C">>, <<"C">>, <<"E">>, <<"E">>),
    Entry(<<"r","/","d","/","a",".","d","n","g">>, FALSE, 0, 0,
          <<"C">>, <<"C">>, <<"E",",","1">>, <<"E">>),
    Entry(<<"r","/","e",".","d","n","g">>, TRUE, 0, 0, NoId, NoId, NoId, NoId),
    Entry(<<"r","/","n",".","t","x","t">>, FALSE, 0, 0, NoId, NoId, NoId, NoId),
    Entry(<<"r","/","c">>, FALSE, 0, 0, NoId, NoId, NoId, NoId) }

Trees == {t \in SUBSET EntryPool : Cardinality(t) <= MaxEntries}

\* the directory that exists
RootDir == <<"r">>

\* command lines: --help, --root_dir, --outfile, or one cxxopts rejects
ArgsSet ==
  [help : BOOLEAN, malformed : BOOLEAN,
   root_dir : {<<>>, RootDir, <<"x">>},
   outfile : {<<>>, <<"o">>}]

Header ==
  <<"f","i","l","e","_","i","d",",","m","a","k","e",",",
    "n","o","r","m","a","l","i","z","e","d","_","m","a","k","e",",",
    "m","o","d","e","l",",",
    "n","o","r","m","a","l","i","z","e","d","_","m","o","d","e","l","\n">>

\* what the output path may hold before the first run
InitialDisks ==
  { [exists |-> FALSE, data |-> <<>>],
    [exists |-> TRUE, data |-> <<"z", "\n">>] }

----------------------------------------------------------------------------
(* State *)

VARIABLES
  args,        \* parsed command line of the invocation
  tree,        \* entries under RootDir
  disk,        \* the file at the output path
  pc,          \* position of main
  file,        \* the std::ofstream: "unopened", "good", "fail", "closed"
  raw,         \* imgdata.idata of the LibRaw object
  remaining,   \* entries the recursive_directory_iterator has not produced
  entry,       \* the entry of the current loop iteration
  camera_info, \* the string camera_model returned for it
  exit_code,   \* exit status, -1 while running
  thrown,      \* the exception that left the try block or main, "none"
  visited,     \* paths handed to camera_model in this run, in order
  run,         \* number of the invocation
  prev         \* the output file as the previous invocation left it, and
               \* whether that invocation returned 0 with its stream good

main_vars ==
  <<args, tree, disk, pc, file, raw, remaining, entry, camera_info,
    exit_code, thrown, visited, run, prev>>

NoEntry == Entry(<<>>, FALSE, 0, 0, NoId, NoId, NoId, NoId)

----------------------------------------------------------------------------
(* State of the Python side of the tools: the acquisition engine, the     *)
(* index builder and the dataset view of MITAboveFiveK, and of the        *)
(* harness that applies the string helpers to arbitrary paths             *)

VARIABLES
  requested,   \* the (item, variant) files the batch was asked for
  initially,   \* the files present locally when the batch was called
  canon,       \* what each canonical path holds
  mtime,       \* how often each canonical path has been written
  worker,      \* the fetchers of the batch's pool
  rival,       \* a fetcher of another process using the same layout
  outcome,     \* the batch result of each file
  transfers,   \* network operations the batch made for each file
  last_read,   \* what the last read of a canonical path has seen
  splits,      \* the item ids of each split, in index order
  cursor,      \* the next item id the index builder places
  view,        \* the dataset view: its parameters and the last record
  probe        \* a path and what the string helpers made of it

engine_vars ==
  <<requested, initially, canon, mtime, worker, rival, outcome, transfers,
    last_read>>

builder_vars == <<splits, cursor>>

aux_vars == <<engine_vars, builder_vars, view, probe>>

vars == <<main_vars, aux_vars>>

\* the engine, the builder, the view and the harness before they are used
EngineIdle ==
  /\ requested = {}
  /\ initially = {}
  /\ canon = <<>>
  /\ mtime = <<>>
  /\ worker = <<>>
  /\ rival = [st |-> "off"]
  /\ outcome = <<>>
  /\ transfers = <<>>
  /\ last_read = "none"

BuilderIdle ==
  /\ splits = <<>>
  /\ cursor = 0

ViewIdle == view = [st |-> "off"]

ProbeIdle == probe = [st |-> "off"]

\* the extractor when it is not the component under study
MainIdle ==
  /\ args = [help |-> FALSE, malformed |-> FALSE, root_dir |-> RootDir,
             outfile |-> <<"o">>]
  /\ tree = {}
  /\ disk = [exists |-> FALSE, data |-> <<>>]
  /\ pc = "off"
  /\ file = "unopened"
  /\ raw = EmptyIdata
  /\ remaining = {}
  /\ entry = NoEntry
  /\ camera_info = <<>>
  /\ exit_code = -1
  /\ thrown = "none"
  /\ visited = <<>>
  /\ run = 1
  /\ prev = [disk |-> disk, ok |-> FALSE]

Init ==
  /\ args \in ArgsSet
  /\ tree \in Trees
  /\ disk \in InitialDisks
  /\ pc = "parse"
  /\ file = "unopened"
  /\ raw = EmptyIdata
  /\ remaining = {}
  /\ entry = NoEntry
  /\ camera_info = <<>>
  /\ exit_code = -1
  /\ thrown = "none"
  /\ visited = <<>>
  /\ run = 1
  /\ prev = [disk |-> disk, ok |-> FALSE]
  /\ EngineIdle
  /\ BuilderIdle
  /\ ViewIdle
  /\ ProbeIdle

----------------------------------------------------------------------------
(* std::ofstream *)

\* file.open with std::ios::app: the previous content is kept
file_open_append(ok) ==
  IF ok
  THEN /\ file' = "good"
       /\ disk' = [exists |-> TRUE, data |-> disk.data]
  ELSE /\ file' = "fail"
       /\ disk' = disk

\* file.open(out_file, std::ios::out): truncates the file, or sets failbit
file_open(ok) ==
  IF ok
  THEN /\ file' = "good"
       /\ disk' = [exists |-> TRUE, data |-> <<>>]
  ELSE /\ file' = "fail"
       /\ disk' = disk

\* file << s: appends, sets badbit when the write fails, and is a no-op on
\* a stream that is not good
file_write(s, ok) ==
  IF file = "good" /\ ok
  THEN /\ disk' = [disk EXCEPT !.data = @ \o s]
       /\ file' = file
  ELSE /\ disk' = disk
       /\ file' = IF file = "good" THEN "fail" ELSE file

----------------------------------------------------------------------------
(* main *)

\* options.parse throws outside the try block: std::terminate
ParseThrows ==
  /\ pc = "parse"
  /\ args.malformed
  /\ pc' = "done"
  /\ thrown' = "option_exception"
  /\ exit_code' = 134
  /\ UNCHANGED <<args, tree, disk, file, raw, remaining, entry, camera_info,
                 visited, run, prev>>
  /\ UNCHANGED aux_vars

\* a help path that returns only after the output file was opened
Help_after_open ==
  /\ pc = "parse"
  /\ ~args.malformed
  /\ args.help
  /\ file_open(TRUE)
  /\ pc' = "done"
  /\ exit_code' = 0
  /\ UNCHANGED <<args, tree, raw, remaining, entry, camera_info, thrown,
                 visited, run, prev>>
  /\ UNCHANGED aux_vars

\* if (args.count("help")) { print; return 0; }
Help ==
  /\ pc = "parse"
  /\ ~args.malformed
  /\ args.help
  /\ pc' = "done"
  /\ exit_code' = 0
  /\ UNCHANGED <<args, tree, disk, file, raw, remaining, entry, camera_info,
                 thrown, visited, run, prev>>
  /\ UNCHANGED aux_vars

\* the test of the arguments placed after file.open
CheckArgs_after_open ==
  /\ pc = "parse"
  /\ ~args.malformed
  /\ ~args.help
  /\ IF args.root_dir = <<>> \/ args.outfile = <<>>
     THEN /\ file_open(TRUE)
          /\ thrown' = "invalid_argument"
          /\ pc' = "catch"
     ELSE /\ thrown' = thrown
          /\ pc' = "open"
          /\ UNCHANGED <<disk, file>>
  /\ UNCHANGED <<args, tree, raw, remaining, entry, camera_info,
                 exit_code, visited, run, prev>>
  /\ UNCHANGED aux_vars

\* if (in_dir.empty() || out_file.empty()) throw std::invalid_argument
CheckArgs ==
  /\ pc = "parse"
  /\ ~args.malformed
  /\ ~args.help
  /\ IF args.root_dir = <<>> \/ args.outfile = <<>>
     THEN /\ thrown' = "invalid_argument"
          /\ pc' = "catch"
     ELSE /\ thrown' = thrown
          /\ pc' = "open"
  /\ UNCHANGED <<args, tree, disk, file, raw, remaining, entry, camera_info,
                 exit_code, visited, run, prev>>
  /\ UNCHANGED aux_vars

\* std::ofstream file; file.open(out_file, std::ios::out);
OpenOutput ==
  /\ pc = "open"
  /\ \E ok \in BOOLEAN : file_open(ok)
  /\ pc' = "header"
  /\ UNCHANGED <<args, tree, raw, remaining, entry, camera_info, exit_code,
                 thrown, visited, run, prev>>
  /\ UNCHANGED aux_vars

\* main without the header statement
WriteHeader_omitted ==
  /\ pc = "header"
  /\ pc' = "walk"
  /\ UNCHANGED <<args, tree, disk, file, raw, remaining, entry, camera_info,
                 exit_code, thrown, visited, run, prev>>
  /\ UNCHANGED aux_vars

\* file << "file_id,make,normalized_make,model,normalized_model\n";
WriteHeader ==
  /\ pc = "header"
  /\ \E ok \in BOOLEAN : file_write(Header, ok)
  /\ pc' = "walk"
  /\ UNCHANGED <<args, tree, raw, remaining, entry, camera_info, exit_code,
                 thrown, visited, run, prev>>
  /\ UNCHANGED aux_vars

\* std::filesystem::recursive_directory_iterator(root_dir): throws
\* filesystem_error when the root is not an existing directory
BeginWalk ==
  /\ pc = "walk"
  /\ IF args.root_dir = RootDir
     THEN /\ remaining' = tree
          /\ thrown' = thrown
          /\ pc' = "loop"
     ELSE /\ remaining' = remaining
          /\ thrown' = "filesystem_error"
          /\ pc' = "catch"
  /\ UNCHANGED <<args, tree, disk, file, raw, entry, camera_info, exit_code,
                 visited, run, prev>>
  /\ UNCHANGED aux_vars

\* the loop body without the is_directory test
NextEntry_directories_too ==
  /\ pc = "loop"
  /\ \E e \in remaining :
       /\ remaining' = remaining \ {e}
       /\ IF is_dng_file_throws(e.path)
          THEN /\ pc' = "catch"
               /\ thrown' = "out_of_range"
               /\ UNCHANGED entry
          ELSE IF is_dng_file(e.path)
          THEN /\ pc' = "camera_model"
               /\ entry' = e
               /\ UNCHANGED thrown
          ELSE /\ pc' = "loop"
               /\ UNCHANGED <<entry, thrown>>
  /\ UNCHANGED <<args, tree, disk, file, raw, camera_info, exit_code,
                 visited, run, prev>>
  /\ UNCHANGED aux_vars

\* one iteration of the range-for up to the call of camera_model:
\* if (!entry.is_directory() && is_dng_file(entry.path()))
NextEntry ==
  /\ pc = "loop"
  /\ \E e \in remaining :
       /\ remaining' = remaining \ {e}
       /\ IF e.is_directory
          THEN /\ pc' = "loop"
               /\ UNCHANGED <<entry, thrown>>
          ELSE IF is_dng_file_throws(e.path)
          THEN /\ pc' = "catch"
               /\ thrown' = "out_of_range"
               /\ UNCHANGED entry
          ELSE IF is_dng_file(e.path)
          THEN /\ pc' = "camera_model"
               /\ entry' = e
               /\ UNCHANGED thrown
          ELSE /\ pc' = "loop"
               /\ UNCHANGED <<entry, thrown>>
  /\ UNCHANGED <<args, tree, disk, file, raw, camera_info, exit_code,
                 visited, run, prev>>
  /\ UNCHANGED aux_vars

\* the iterator's increment fails (an unreadable directory): filesystem_error
WalkThrows ==
  /\ pc = "loop"
  /\ remaining # {}
  /\ thrown' = "filesystem_error"
  /\ pc' = "catch"
  /\ UNCHANGED <<args, tree, disk, file, raw, remaining, entry, camera_info,
                 exit_code, visited, run, prev>>
  /\ UNCHANGED aux_vars

\* camera_model throwing std::runtime_error when LibRaw fails
CallCameraModel_throwing ==
  /\ pc = "camera_model"
  /\ LET c == camera_model(raw, entry)
     IN /\ camera_info' = c.ret
        /\ raw' = c.raw
        /\ IF entry.open_res = LIBRAW_SUCCESS
              /\ entry.unpack_res = LIBRAW_SUCCESS
           THEN pc' = "row" /\ thrown' = thrown
           ELSE pc' = "catch" /\ thrown' = "runtime_error"
  /\ visited' = Append(visited, entry.path)
  /\ UNCHANGED <<args, tree, disk, file, remaining, entry, exit_code,
                 run, prev>>
  /\ UNCHANGED aux_vars

\* std::string &&camera_info = camera_model(raw, entry.path());
CallCameraModel ==
  /\ pc = "camera_model"
  /\ LET c == camera_model(raw, entry)
     IN /\ camera_info' = c.ret
        /\ raw' = c.raw
  /\ visited' = Append(visited, entry.path)
  /\ pc' = "row"
  /\ UNCHANGED <<args, tree, disk, file, remaining, entry, exit_code, thrown,
                 run, prev>>
  /\ UNCHANGED aux_vars

\* file << basename(entry.path()) << "," << camera_info << "\n";
WriteRow ==
  /\ pc = "row"
  /\ \E ok \in BOOLEAN :
       file_write(row_text(entry.path, camera_info), ok)
  /\ pc' = "loop"
  /\ UNCHANGED <<args, tree, raw, remaining, entry, camera_info, exit_code,
                 thrown, visited, run, prev>>
  /\ UNCHANGED aux_vars

\* the range-for ends: file.close(); return 0;
Finish ==
  /\ pc = "loop"
  /\ remaining = {}
  /\ file' = IF file = "good" THEN "closed" ELSE file
  /\ exit_code' = 0
  /\ pc' = "done"
  /\ UNCHANGED <<args, tree, disk, raw, remaining, entry, camera_info, thrown,
                 visited, run, prev>>
  /\ UNCHANGED aux_vars

\* a handler that returns 0
Catch_returns_zero ==
  /\ pc = "catch"
  /\ file' = IF file = "good" THEN "closed" ELSE file
  /\ exit_code' = 0
  /\ pc' = "done"
  /\ UNCHANGED <<args, tree, disk, raw, remaining, entry, camera_info, thrown,
                 visited, run, prev>>
  /\ UNCHANGED aux_vars

\* catch (std::exception &e) { ...; return 1; } after the stream's destructor
Catch ==
  /\ pc = "catch"
  /\ file' = IF file = "good" THEN "closed" ELSE file
  /\ exit_code' = 1
  /\ pc' = "done"
  /\ UNCHANGED <<args, tree, disk, raw, remaining, entry, camera_info, thrown,
                 visited, run, prev>>
  /\ UNCHANGED aux_vars

\* the program is invoked again with the same command line on the same tree
Rerun ==
  /\ pc = "done"
  /\ run < MaxRuns
  /\ run' = run + 1
  /\ prev' = [disk |-> disk, ok |-> exit_code = 0 /\ file = "closed"]
  /\ pc' = "parse"
  /\ file' = "unopened"
  /\ raw' = EmptyIdata
  /\ remaining' = {}
  /\ entry' = NoEntry
  /\ camera_info' = <<>>
  /\ exit_code' = -1
  /\ thrown' = "none"
  /\ visited' = <<>>
  /\ UNCHANGED <<args, tree, disk>>
  /\ UNCHANGED aux_vars

Next ==
  \/ ParseThrows
  \/ Help
  \/ CheckArgs
  \/ OpenOutput
  \/ WriteHeader
  \/ BeginWalk
  \/ NextEntry
  \/ WalkThrows
  \/ CallCameraModel
  \/ WriteRow
  \/ Finish
  \/ Catch
  \/ Rerun

Spec == Init /\ [][Next]_vars

----------------------------------------------------------------------------
(* Concurrent Acquisition Engine: download of MITAboveFiveK *)

\* largest number of files of the local layout
MaxFiles == 2

\* download_workers: the size of the pool of concurrent fetchers
PoolSize == 2

\* how often a failed fetch of one file is retried
RetryBound == 1

File(item, variant) == [item |-> item, variant |-> variant]

\* the raw file and the expert variants of the items, in a fixed order
FilePool ==
  <<File(1, "dng"), File(1, "a"), File(2, "dng"), File(2, "c"),
    File(3, "a")>>

Files == {FilePool[i] : i \in 1..MaxFiles}

Workers == 1..PoolSize

NoJob == File(0, "none")

IdleWorker == [st |-> "idle", job |-> NoJob, tmp |-> "none"]

InitEngine ==
  /\ requested \in SUBSET Files
  /\ initially \in SUBSET Files
  /\ canon = [f \in Files |-> IF f \in initially THEN "complete" ELSE "absent"]
  /\ mtime = [f \in Files |-> 0]
  /\ worker = [w \in Workers |-> IdleWorker]
  /\ rival = IdleWorker
  /\ outcome = [f \in Files |->
                  IF f \in requested THEN "pending" ELSE "not_requested"]
  /\ transfers = [f \in Files |-> 0]
  /\ last_read = "none"
  /\ MainIdle
  /\ BuilderIdle
  /\ ViewIdle
  /\ ProbeIdle

\* a pool worker takes the next requested file without the presence check
Dispatch_unconditional(w, f) ==
  /\ worker[w].st = "idle"
  /\ f \in requested
  /\ outcome[f] = "pending"
  /\ \A v \in Workers : worker[v].job # f
  /\ worker' = [worker EXCEPT ![w] =
                  [st |-> "fetching", job |-> f, tmp |-> "none"]]
  /\ UNCHANGED <<requested, initially, canon, mtime, rival, outcome,
                 transfers, last_read>>
  /\ UNCHANGED <<main_vars, builder_vars, view, probe>>

\* a pool worker takes the next requested file: a file that exists at its
\* canonical path is satisfied without network access, any other is fetched
Dispatch(w, f) ==
  /\ worker[w].st = "idle"
  /\ f \in requested
  /\ outcome[f] = "pending"
  /\ \A v \in Workers : worker[v].job # f
  /\ IF canon[f] # "absent"
     THEN /\ outcome' = [outcome EXCEPT ![f] = "resolved"]
          /\ worker' = worker
     ELSE /\ outcome' = outcome
          /\ worker' = [worker EXCEPT ![w] =
                          [st |-> "fetching", job |-> f, tmp |-> "none"]]
  /\ UNCHANGED <<requested, initially, canon, mtime, rival, transfers,
                 last_read>>
  /\ UNCHANGED <<main_vars, builder_vars, view, probe>>

\* a fetch that writes the bytes straight to the canonical path
StartAttempt_in_place(w) ==
  /\ worker[w].st = "fetching"
  /\ worker[w].tmp = "none"
  /\ worker' = [worker EXCEPT ![w].tmp = "partial"]
  /\ canon' = [canon EXCEPT ![worker[w].job] = "partial"]
  /\ transfers' = [transfers EXCEPT ![worker[w].job] = @ + 1]
  /\ UNCHANGED <<requested, initially, mtime, rival, outcome, last_read>>
  /\ UNCHANGED <<main_vars, builder_vars, view, probe>>

\* one network operation begins: the bytes go to the worker's temporary file
StartAttempt(w) ==
  /\ worker[w].st = "fetching"
  /\ worker[w].tmp = "none"
  /\ worker' = [worker EXCEPT ![w].tmp = "partial"]
  /\ transfers' = [transfers EXCEPT ![worker[w].job] = @ + 1]
  /\ UNCHANGED <<requested, initially, canon, mtime, rival, outcome,
                 last_read>>
  /\ UNCHANGED <<main_vars, builder_vars, view, probe>>

\* the transfer completes
AttemptSucceeds(w) ==
  /\ worker[w].st = "fetching"
  /\ worker[w].tmp = "partial"
  /\ worker' = [worker EXCEPT ![w].tmp = "complete", ![w].st = "fetched"]
  /\ UNCHANGED <<requested, initially, canon, mtime, rival, outcome,
                 transfers, last_read>>
  /\ UNCHANGED <<main_vars, builder_vars, view, probe>>

\* a failure that gives the whole batch up: every pending file is failed
AttemptFails_aborts_batch(w) ==
  /\ worker[w].st = "fetching"
  /\ worker[w].tmp = "partial"
  /\ IF transfers[worker[w].job] > RetryBound
     THEN /\ outcome' = [f \in Files |->
                           IF outcome[f] = "pending" THEN "failed"
                           ELSE outcome[f]]
          /\ worker' = [v \in Workers |-> IdleWorker]
     ELSE /\ outcome' = outcome
          /\ worker' = [worker EXCEPT ![w].tmp = "none"]
  /\ UNCHANGED <<requested, initially, canon, mtime, rival, transfers,
                 last_read>>
  /\ UNCHANGED <<main_vars, builder_vars, view, probe>>

\* the transfer fails (network error, non-success status): the temporary
\* file is dropped and the fetch is retried, or, with the retries used up,
\* the failure is recorded for this file alone
AttemptFails(w) ==
  /\ worker[w].st = "fetching"
  /\ worker[w].tmp = "partial"
  /\ IF transfers[worker[w].job] > RetryBound
     THEN /\ outcome' = [outcome EXCEPT ![worker[w].job] = "failed"]
          /\ worker' = [worker EXCEPT ![w] = IdleWorker]
     ELSE /\ outcome' = outcome
          /\ worker' = [worker EXCEPT ![w].tmp = "none"]
  /\ UNCHANGED <<requested, initially, canon, mtime, rival, transfers,
                 last_read>>
  /\ UNCHANGED <<main_vars, builder_vars, view, probe>>

\* the complete temporary file is renamed to the canonical path
Publish(w) ==
  /\ worker[w].st = "fetched"
  /\ canon' = [canon EXCEPT ![worker[w].job] = "complete"]
  /\ mtime' = [mtime EXCEPT ![worker[w].job] = @ + 1]
  /\ outcome' = [outcome EXCEPT ![worker[w].job] = "resolved"]
  /\ worker' = [worker EXCEPT ![w] = IdleWorker]
  /\ UNCHANGED <<requested, initially, rival, transfers, last_read>>
  /\ UNCHANGED <<main_vars, builder_vars, view, probe>>

\* another process starts to download a file it found absent
RivalStart(f) ==
  /\ rival.st = "idle"
  /\ canon[f] = "absent"
  /\ rival' = [st |-> "fetching", job |-> f, tmp |-> "partial"]
  /\ UNCHANGED <<requested, initially, canon, mtime, worker, outcome,
                 transfers, last_read>>
  /\ UNCHANGED <<main_vars, builder_vars, view, probe>>

\* a fault in the middle of its download: the process is gone and its
\* temporary file stays behind, partially written
RivalCrash ==
  /\ rival.st = "fetching"
  /\ rival' = [rival EXCEPT !.st = "crashed"]
  /\ UNCHANGED <<requested, initially, canon, mtime, worker, outcome,
                 transfers, last_read>>
  /\ UNCHANGED <<main_vars, builder_vars, view, probe>>

\* its download completes and is renamed to the canonical path
RivalPublish ==
  /\ rival.st = "fetching"
  /\ canon' = [canon EXCEPT ![rival.job] = "complete"]
  /\ mtime' = [mtime EXCEPT ![rival.job] = @ + 1]
  /\ rival' = [st |-> "exited", job |-> NoJob, tmp |-> "none"]
  /\ UNCHANGED <<requested, initially, worker, outcome, transfers, last_read>>
  /\ UNCHANGED <<main_vars, builder_vars, view, probe>>

\* a reader opens a canonical path
Read(f) ==
  /\ last_read' = canon[f]
  /\ last_read' # last_read
  /\ UNCHANGED <<requested, initially, canon, mtime, worker, rival, outcome,
                 transfers>>
  /\ UNCHANGED <<main_vars, builder_vars, view, probe>>

\* the steps of the batch
BatchStep ==
  \/ \E w \in Workers : \E f \in Files : Dispatch(w, f)
  \/ \E w \in Workers : StartAttempt(w)
  \/ \E w \in Workers : AttemptSucceeds(w)
  \/ \E w \in Workers : AttemptFails(w)
  \/ \E w \in Workers : Publish(w)

NextEngine ==
  \/ BatchStep
  \/ \E f \in Files : RivalStart(f)
  \/ RivalCrash
  \/ RivalPublish
  \/ \E f \in Files : Read(f)

SpecEngine == InitEngine /\ [][NextEngine]_vars

\* the pool's workers are scheduled as long as the batch has work
SpecEngineFair == SpecEngine /\ WF_vars(BatchStep)

----------------------------------------------------------------------------
(* Properties of the acquisition engine *)

\* every requested file is resolved or failed
BatchDone == \A f \in requested : outcome[f] \in {"resolved", "failed"}

\* C11: acquisition is an idempotent, resumable skip: network operations
\* are made only for requested files that were absent; a file that was
\* present is never fetched nor rewritten and never fails; when the batch
\* ends every requested absent file has been fetched (or was delivered by
\* another process before its presence check); on a fully populated layout
\* the batch makes no transfer and reports no failure, whatever the remote.
C11_IdempotentResumableSkip ==
  /\ \A f \in DOMAIN transfers :
       transfers[f] > 0 => (f \in requested /\ f \notin initially)
  /\ \A f \in initially :
       canon[f] = "complete" /\ mtime[f] = 0 /\ outcome[f] # "failed"
  /\ BatchDone =>
       \A f \in requested \ initially : transfers[f] > 0 \/ mtime[f] > 0
  /\ (BatchDone /\ requested \subseteq initially) =>
       \A f \in DOMAIN transfers :
          transfers[f] = 0 /\ outcome[f] # "failed"

\* a finished batch that skipped a present file and fetched an absent one
C11_Witness ==
  /\ requested # {}
  /\ BatchDone
  /\ \E f \in requested : f \in initially /\ outcome[f] = "resolved"
  /\ \E f \in requested :
       f \notin initially /\ transfers[f] > 0 /\ outcome[f] = "resolved"

\* C12: download atomicity: whatever fetchers of this and of another
\* process do to one canonical path and wherever a fault strikes, the path
\* holds nothing or one complete file, and that is all a read ever sees;
\* partially written data exists in temporary files only.
C12_DownloadAtomicity ==
  /\ \A f \in DOMAIN canon : canon[f] \in {"absent", "complete"}
  /\ last_read \in {"none", "absent", "complete"}

\* two fetchers took the same path, one crashed in the middle of its
\* download, the other one's file is in place and has been read
C12_Witness ==
  /\ rival.st = "crashed"
  /\ rival.tmp = "partial"
  /\ mtime[rival.job] > 0
  /\ canon[rival.job] = "complete"
  /\ last_read = "complete"

\* C15: a failed fetch is retried at most RetryBound times; a file is
\* recorded as failed only with its retries used up, and that affects no
\* other file; every batch ends, with each requested file either resolved
\* (and in place) or failed, and no other file in its result.
C15_BoundedRetries ==
  /\ [](\A f \in DOMAIN outcome :
          /\ transfers[f] <= RetryBound + 1
          /\ outcome[f] = "failed" => transfers[f] = RetryBound + 1
          /\ outcome[f] = "resolved" => canon[f] = "complete"
          /\ f \notin requested <=> outcome[f] = "not_requested")
  /\ <>BatchDone

\* a finished batch with one file failed and another one fetched
C15_Witness ==
  /\ BatchDone
  /\ \E f \in requested : outcome[f] = "failed"
  /\ \E f \in requested : outcome[f] = "resolved" /\ transfers[f] > 0

----------------------------------------------------------------------------
(* Vocabulary of the properties *)

RECURSIVE SplitOn(_, _)
\* the pieces of s between the occurrences of the character c
SplitOn(s, c) ==
  IF \A i \in 1..Len(s) : s[i] # c THEN <<s>>
  ELSE LET k == CHOOSE i \in 1..Len(s) :
                  s[i] = c /\ \A j \in 1..(i - 1) : s[j] # c
       IN <<SubSeq(s, 1, k - 1)>> \o SplitOn(SubSeq(s, k + 1, Len(s)), c)

\* the lines of a text, without their terminating newline
Lines(text) ==
  LET pieces == SplitOn(text, "\n")
  IN SubSeq(pieces, 1, Len(pieces) - 1)

RECURSIVE Join(_, _)
\* the strings of the sequence fields, separated by sep
Join(fields, sep) ==
  IF Len(fields) = 0 THEN <<>>
  ELSE IF Len(fields) = 1 THEN fields[1]
  ELSE fields[1] \o sep \o Join(Tail(fields), sep)

HeaderLine == SubSeq(Header, 1, Len(Header) - 1)

\* the string s ends with the string suffix
EndsWith(s, suffix) ==
  /\ Len(s) >= Len(suffix)
  /\ \A i \in 1..Len(suffix) : s[Len(s) - Len(suffix) + i] = suffix[i]

\* the regular files of the tree whose path ends in ".dng"
DngFiles == {e \in tree : ~e.is_directory /\ EndsWith(e.path, DotDng)}

EntryAt(path) == CHOOSE e \in tree : e.path = path

Decodes(e) == e.open_res = LIBRAW_SUCCESS /\ e.unpack_res = LIBRAW_SUCCESS

\* the output stream of this run was opened and no operation on it failed
SinkIntact == file \in {"good", "closed"}

\* the lines of the output file after the first
DataRows ==
  IF Len(Lines(disk.data)) = 0 THEN <<>> ELSE Tail(Lines(disk.data))

\* the visited files whose row statement has been executed
Written == IF pc = "row" THEN Len(visited) - 1 ELSE Len(visited)

\* the run ended for a reason other than a raw file: the command line, an
\* error of the directory walk, or a path shorter than four characters
OtherAbort ==
  thrown \in {"option_exception", "invalid_argument", "filesystem_error",
              "out_of_range"}

----------------------------------------------------------------------------
(* Properties *)

C2_FailuresDoNotAbort ==
  (pc = "done" /\ ~args.help /\ ~OtherAbort) =>
     /\ exit_code = 0
     /\ {visited[i] : i \in 1..Len(visited)} = {e.path : e \in DngFiles}

\* a finished run that visited another file after a failing one
C2_Witness ==
  /\ pc = "done"
  /\ exit_code = 0
  /\ \E i \in 1..Len(visited) : \E j \in 1..Len(visited) :
       /\ i < j
       /\ EntryAt(visited[i]).open_res # LIBRAW_SUCCESS
       /\ Decodes(EntryAt(visited[j]))

\* C3: the table holds one row per successfully decoded file and nothing
\* else: a file whose open or decode fails contributes no row.
C3_OnlyDecodedFilesHaveRows ==
  (pc = "done" /\ exit_code = 0 /\ SinkIntact) =>
     Len(DataRows) =
       Cardinality({i \in 1..Len(visited) : Decodes(EntryAt(visited[i]))})

\* C4: after a completed run the output holds exactly one row per visited
\* file: every regular file whose path ends in ".dng" was handed to LibRaw
\* exactly once and has exactly one row, and no other entry has one.
C4_OneRowPerVisitedFile ==
  (pc = "done" /\ exit_code = 0 /\ ~args.help /\ SinkIntact) =>
     LET rows == DataRows
     IN /\ {visited[i] : i \in 1..Len(visited)} = {e.path : e \in DngFiles}
        /\ Len(visited) = Cardinality(DngFiles)
        /\ Len(rows) = Len(visited)

\* a completed run over a tree holding .dng files next to a directory named
\* like one and a file of another extension
C4_Witness ==
  /\ pc = "done"
  /\ exit_code = 0
  /\ SinkIntact
  /\ Len(DataRows) >= 1
  /\ \E e \in tree : e.is_directory /\ EndsWith(e.path, DotDng)
  /\ \E e \in tree : ~e.is_directory /\ ~EndsWith(e.path, DotDng)

\* C5: once the header statement has run on an intact stream, the first
\* line of the output file is the header, no other line is the header, and
\* this holds however many rows follow, also for a tree without .dng files.
C5_HeaderFirstAndOnce ==
  (SinkIntact /\ pc \notin {"parse", "open", "header"}) =>
     LET lines == Lines(disk.data)
     IN /\ Len(lines) >= 1
        /\ lines[1] = HeaderLine
        /\ \A i \in 2..Len(lines) : lines[i] # HeaderLine

\* a completed run over a tree without any .dng file: the header alone
C5_Witness ==
  /\ pc = "done"
  /\ exit_code = 0
  /\ SinkIntact
  /\ DngFiles = {}
  /\ tree # {}
  /\ disk.data = Header

\* the file name of a path: what follows its last '/' or '\'
FileNameOf(path) ==
  LET p1 == SplitOn(path, "/")
      p2 == SplitOn(p1[Len(p1)], "\\")
  IN p2[Len(p2)]

\* a file name without its four-character extension
StripExt(name) == SubSeq(name, 1, Len(name) - 4)

\* the number of occurrences of x in the sequence s
Count(s, x) == Cardinality({i \in 1..Len(s) : s[i] = x})

\* the two sequences hold the same elements the same number of times
SameBag(s, t) ==
  /\ Len(s) = Len(t)
  /\ \A i \in 1..Len(s) : Count(s, s[i]) = Count(t, s[i])

\* C6: the row of every successfully decoded file is, in the header's
\* column order, the file id, the raw make, the normalized make, the raw
\* model and the normalized model, each string exactly as LibRaw reported it.
C6_RowCarriesRawAndNormalized ==
  SinkIntact =>
     LET rows == DataRows
     IN \A i \in 1..Written :
          LET e == EntryAt(visited[i])
          IN Decodes(e) =>
               rows[i] =
                 Join(<<StripExt(FileNameOf(e.path)), e.make,
                        e.normalized_make, e.model, e.normalized_model>>,
                      Comma)

\* the row of a decoded file whose raw and normalized strings differ is on
\* disk
C6_Witness ==
  /\ SinkIntact
  /\ \E i \in 1..Written :
       LET e == EntryAt(visited[i])
       IN /\ Decodes(e)
          /\ e.make # e.normalized_make
          /\ e.model # e.normalized_model
          /\ Len(DataRows[i]) > 0

C8_RerunSameContent ==
  (pc = "done" /\ run >= 2 /\ exit_code = 0 /\ SinkIntact /\ prev.ok) =>
     LET lines == Lines(disk.data)
     IN /\ Count(lines, HeaderLine) = 1
        /\ SameBag(lines, Lines(prev.disk.data))

\* a second successful run that met the files in another order
C8_Witness ==
  /\ pc = "done"
  /\ run >= 2
  /\ exit_code = 0
  /\ SinkIntact
  /\ prev.ok
  /\ Len(DataRows) >= 2
  /\ disk.data # prev.disk.data

\* C9: a failure to open or to write the output file is surfaced: the run
\* does not finish with exit code 0.
C9_SinkFailureReported ==
  (pc = "done" /\ file = "fail") => exit_code # 0

\* C10: the file_id values of the rows of one table are pairwise distinct.
C10_FileIdsDistinct ==
  SinkIntact =>
     LET rows == DataRows
     IN \A i \in 1..Len(rows) : \A j \in 1..Len(rows) :
          i # j => SplitOn(rows[i], ",")[1] # SplitOn(rows[j], ",")[1]

\* the file id written at the start of the row of the i-th visited file
WrittenId(rows, i) ==
  SubSeq(rows[i], 1, Len(FileNameOf(visited[i])) - 4)

\* C10 (amended): the rows of two visited files carry the same file_id
\* exactly when the two files have the same file name, whatever their
\* directories; files with different names have different file_ids.
C10_FileIdsDistinctPerName ==
  SinkIntact =>
     LET rows == DataRows
     IN \A i \in 1..Written : \A j \in 1..Written :
          i # j =>
            ((WrittenId(rows, i) = WrittenId(rows, j))
               <=> (FileNameOf(visited[i]) = FileNameOf(visited[j])))

\* rows of two files of one name in two directories, and of a third file
C10_Witness ==
  /\ SinkIntact
  /\ Written >= 3
  /\ \E i \in 1..Written : \E j \in 1..Written :
       /\ i # j
       /\ visited[i] # visited[j]
       /\ WrittenId(DataRows, i) = WrittenId(DataRows, j)

\* C18: an invocation with --help ends with exit code 0, hands no entry of
\* any directory to the loop, and leaves the output path as it found it:
\* the stream is never opened and the file's existence and content are those
\* of before the invocation.
C18_HelpTouchesNothing ==
  (args.help /\ ~args.malformed) =>
     /\ pc \in {"parse", "done"}
     /\ pc = "done" => (exit_code = 0 /\ thrown = "none")
     /\ file = "unopened"
     /\ remaining = {}
     /\ visited = <<>>
     /\ disk = prev.disk

\* --help ended on a tree that holds raw files and an output path that holds
\* a file
C18_Witness ==
  /\ args.help
  /\ ~args.malformed
  /\ args.root_dir = RootDir
  /\ args.outfile # <<>>
  /\ pc = "done"
  /\ exit_code = 0
  /\ DngFiles # {}
  /\ disk.exists

\* the camera fields written in the row of the i-th visited file
WrittenInfo(rows, i) ==
  SubSeq(rows[i], Len(FileNameOf(visited[i])) - 2, Len(rows[i]))

\* C19: the camera fields in the row of the k-th visited file are those of
\* that file or none at all, and the row of a file whose open or unpack
\* fails carries none, whatever files the LibRaw object processed before.
C19_NoStaleData ==
  SinkIntact =>
     LET rows == DataRows
     IN \A i \in 1..Written :
          LET e == EntryAt(visited[i])
              info == WrittenInfo(rows, i)
          IN /\ info \in {<<>>, Join(<<e.make, e.normalized_make, e.model,
                                      e.normalized_model>>, Comma)}
             /\ ~Decodes(e) => info = <<>>

\* the row of a file that fails was written after the row of a decoded file
C19_Witness ==
  /\ SinkIntact
  /\ \E i \in 1..Written : \E j \in 1..Written :
       /\ i < j
       /\ Decodes(EntryAt(visited[i]))
       /\ ~Decodes(EntryAt(visited[j]))
       /\ WrittenInfo(DataRows, j) = <<>>

\* C20: the row of every successfully decoded file splits at its commas
\* into exactly five fields, one per column of the header, whatever the
\* file name and the strings LibRaw reports.
C20_FiveFields ==
  SinkIntact =>
     LET rows == DataRows
     IN \A i \in 1..Written :
          Decodes(EntryAt(visited[i])) =>
             Len(SplitOn(rows[i], ",")) = Len(SplitOn(HeaderLine, ","))

\* C21: an invocation without --help whose root_dir or outfile argument is
\* the empty string ends with exit code 1 on std::invalid_argument; the
\* output stream is never opened, no entry is scanned, and the output path
\* keeps the existence and content it had before the invocation.
C21_EmptyArgumentRejected ==
  (~args.help /\ ~args.malformed
     /\ (args.root_dir = <<>> \/ args.outfile = <<>>)) =>
     /\ pc \in {"parse", "catch", "done"}
     /\ pc = "done" => (exit_code = 1 /\ thrown = "invalid_argument")
     /\ file = "unopened"
     /\ remaining = {}
     /\ visited = <<>>
     /\ disk = prev.disk

\* the run ended on an empty root_dir with an output path that holds a file
C21_Witness ==
  /\ ~args.help
  /\ ~args.malformed
  /\ args.root_dir = <<>>
  /\ args.outfile # <<>>
  /\ pc = "done"
  /\ exit_code = 1
  /\ disk.exists
  /\ disk.data # <<>>

----------------------------------------------------------------------------
(* Metadata Index Builder: the split indexes *)

\* 'debug' uses only 9 data contained in 'train'
DEBUG_SIZE == 9

\* largest number of items beyond those the debug split is taken from
MaxExtraItems == 4

\* the item ids of the dataset; the split an item belongs to is an input of
\* the builder, and the train split of the dataset is larger than the debug
\* split: the items 1..DEBUG_SIZE stand for train items
Items == 1..(DEBUG_SIZE + MaxExtraItems)

SplitNames == {"train", "val", "test"}

SplitChoices(id) == IF id <= DEBUG_SIZE THEN {"train"} ELSE SplitNames

InitBuilder ==
  /\ splits = [train |-> <<>>, val |-> <<>>, test |-> <<>>, debug |-> <<>>]
  /\ cursor = 1
  /\ EngineIdle
  /\ ViewIdle
  /\ ProbeIdle
  /\ MainIdle

\* a builder that lists every item in val as well
PlaceItem_val_too(name) ==
  /\ cursor \in Items
  /\ name \in SplitChoices(cursor)
  /\ splits' = [splits EXCEPT ![name] = Append(@, cursor),
                              !.val = Append(@, cursor)]
  /\ cursor' = cursor + 1
  /\ UNCHANGED <<main_vars, engine_vars, view, probe>>

\* the record of the next item is appended to the index of its split
PlaceItem(name) ==
  /\ cursor \in Items
  /\ name \in SplitChoices(cursor)
  /\ splits' = [splits EXCEPT ![name] = Append(@, cursor)]
  /\ cursor' = cursor + 1
  /\ UNCHANGED <<main_vars, engine_vars, view, probe>>

\* after the last item: debug is the literal head of the train index
FinishBuild ==
  /\ cursor = DEBUG_SIZE + MaxExtraItems + 1
  /\ splits' = [splits EXCEPT !.debug = SubSeq(splits.train, 1, DEBUG_SIZE)]
  /\ cursor' = 0
  /\ UNCHANGED <<main_vars, engine_vars, view, probe>>

NextBuilder ==
  \/ \E name \in SplitNames : PlaceItem(name)
  \/ FinishBuild

SpecBuilder == InitBuilder /\ [][NextBuilder]_vars

\* the ids of an index
IdsOf(index) == {index[i] : i \in 1..Len(index)}

\* the index lists no id twice
NoRepeat(index) == Cardinality(IdsOf(index)) = Len(index)

\* C13: no item id is in two of the splits train, val, test; in the built
\* index every item id is in exactly one of them, and debug consists of
\* DEBUG_SIZE (9) different items, all of them items of train.
C13_SplitPartition ==
  /\ \A a \in SplitNames : \A b \in SplitNames :
       a # b => IdsOf(splits[a]) \cap IdsOf(splits[b]) = {}
  /\ \A a \in SplitNames : NoRepeat(splits[a])
  /\ cursor = 0 =>
       /\ IdsOf(splits.train) \cup IdsOf(splits.val) \cup IdsOf(splits.test)
            = Items
       /\ Len(splits.debug) = DEBUG_SIZE
       /\ NoRepeat(splits.debug)
       /\ IdsOf(splits.debug) \subseteq IdsOf(splits.train)

\* a built index with three non-empty splits and a debug split smaller than
\* train
C13_Witness ==
  /\ cursor = 0
  /\ splits.val # <<>>
  /\ splits.test # <<>>
  /\ Len(splits.train) > Len(splits.debug)
  /\ splits.debug # <<>>

----------------------------------------------------------------------------
(* Random-Access Dataset View: MITAboveFiveK(root, split, download, experts) *)

\* largest number of items of the split the view serves
MaxIndex == 3

\* 'a' means 'Expert A'
Experts == {"a", "b", "c", "d", "e"}

\* the canonical local path of an item's raw file and of its variants
raw_path(id) == <<"MITAboveFiveK", "raw", id, "dng">>

tiff16_path(expert, id) == <<"MITAboveFiveK", "processed", "tiff16", expert, id, "tif">>

NoRecord == [id |-> 0]

InitView ==
  /\ view \in [st : {"constructed"}, experts : SUBSET Experts,
               download : BOOLEAN, record : {NoRecord}]
  /\ EngineIdle
  /\ BuilderIdle
  /\ ProbeIdle
  /\ MainIdle

\* a record that lists the path of every expert's file
GetItem_every_expert(i) ==
  /\ view.st \in {"constructed", "served"}
  /\ i \in 1..MaxIndex
  /\ view' = [view EXCEPT
       !.st = "served",
       !.record = [id |-> i,
                   files |-> [dng |-> raw_path(i),
                              tiff16 |-> [e \in Experts |->
                                            tiff16_path(e, i)]]]]
  /\ view' # view
  /\ UNCHANGED <<main_vars, engine_vars, builder_vars, probe>>

\* __getitem__(i): the record of the i-th item of the split
GetItem(i) ==
  /\ view.st \in {"constructed", "served"}
  /\ i \in 1..MaxIndex
  /\ view' = [view EXCEPT
       !.st = "served",
       !.record = [id |-> i,
                   files |-> [dng |-> raw_path(i),
                              tiff16 |-> [e \in view.experts |->
                                            tiff16_path(e, i)]]]]
  /\ view' # view
  /\ UNCHANGED <<main_vars, engine_vars, builder_vars, probe>>

NextView == \E i \in 1..MaxIndex : GetItem(i)

SpecView == InitView /\ [][NextView]_vars

----------------------------------------------------------------------------
(* The path helpers called on arbitrary strings *)

\* longest text put in front of a probed path's ending
MaxStem == 2

ProbeAlphabet == {"a", "/", "\\", ".", ","}

RECURSIVE StringsUpTo(_)
\* the strings over the alphabet of length at most n
StringsUpTo(n) ==
  IF n = 0 THEN {<<>>}
  ELSE LET shorter == StringsUpTo(n - 1)
       IN shorter \cup {Append(t, c) : t \in shorter, c \in ProbeAlphabet}

ProbeEndings ==
  {<<>>, DotDng, <<".", "d", "n">>, <<"d", "n", "g">>,
   <<".", "D", "N", "G">>, DotDng \o <<"x">>}

ProbePaths == {t \o e : t \in StringsUpTo(MaxStem), e \in ProbeEndings}

\* what camera_model may have returned for the file
ProbeInfos == {<<>>, <<"C", ",", "C", ",", "M", ",", "M">>}

InitProbe ==
  /\ probe \in [st : {"ready"}, fn : {"none"}, path : ProbePaths,
                truth : {FALSE}, text : {<<>>}]
  /\ EngineIdle
  /\ BuilderIdle
  /\ ViewIdle
  /\ MainIdle

\* is_dng_file(path): returns, or lets substr's std::out_of_range escape
Call_is_dng_file ==
  /\ probe.st = "ready"
  /\ probe' = IF is_dng_file_throws(probe.path)
              THEN [probe EXCEPT !.st = "out_of_range",
                                 !.fn = "is_dng_file"]
              ELSE [probe EXCEPT !.st = "returned",
                                 !.fn = "is_dng_file",
                                 !.truth = is_dng_file(probe.path)]
  /\ UNCHANGED <<main_vars, engine_vars, builder_vars, view>>

\* basename(path)
Call_basename ==
  /\ probe.st = "ready"
  /\ probe' = [probe EXCEPT !.st = "returned",
                            !.fn = "basename",
                            !.text = basename(probe.path)]
  /\ UNCHANGED <<main_vars, engine_vars, builder_vars, view>>

\* the row main writes for a path that passed is_dng_file
Call_row_text ==
  /\ probe.st = "ready"
  /\ ~is_dng_file_throws(probe.path)
  /\ is_dng_file(probe.path)
  /\ \E info \in ProbeInfos :
       probe' = [probe EXCEPT !.st = "returned",
                              !.fn = "row_text",
                              !.text = row_text(probe.path, info)]
  /\ UNCHANGED <<main_vars, engine_vars, builder_vars, view>>

NextProbe ==
  \/ Call_is_dng_file
  \/ Call_basename
  \/ Call_row_text

SpecProbe == InitProbe /\ [][NextProbe]_vars

\* C16: is_dng_file(path) returns for every string, those shorter than four
\* characters and the empty one included, and returns true exactly when the
\* path ends with ".dng".
C16_IsDngFileTotal ==
  probe.fn = "is_dng_file" =>
     /\ probe.st = "returned"
     /\ probe.truth = EndsWith(probe.path, DotDng)

\* C17: for a path ending in ".dng", with or without a separator, basename
\* returns the file name (what follows the last '/' or '\') without its
\* ".dng", and the row written for the path starts with that value followed
\* by the comma that ends the file_id column.
C17_BasenameIsFileId ==
  (probe.st = "returned" /\ EndsWith(probe.path, DotDng)) =>
     LET id == StripExt(FileNameOf(probe.path))
     IN /\ probe.fn = "basename" => probe.text = id
        /\ probe.fn = "row_text" =>
             /\ SubSeq(probe.text, 1, Len(id)) = id
             /\ probe.text[Len(id) + 1] = ","

\* basename of a path without any separator
C17_Witness ==
  /\ probe.st = "returned"
  /\ probe.fn = "basename"
  /\ probe.path = <<"a">> \o DotDng
  /\ probe.text = <<"a">>

====
